---- MODULE Spec2Model ----
(***************************************************************************)
(* dependabot-bouncer: the deny policy (isDenied), the title parser        *)
(* (extractPackageInfo) and the listing / dispatch loops of                *)
(* internal/scm/github.go and cmd/dependabot-bouncer/commands.go.          *)
(*                                                                         *)
(* Go strings are TLA+ strings; Len, \o and SubSeq act on them as on       *)
(* sequences of characters.  Only ASCII text is modelled: on ASCII         *)
(* strings.EqualFold(s, t) is ToLower(s) = ToLower(t).                     *)
(***************************************************************************)
EXTENDS Integers, Sequences, FiniteSets, TLC

VARIABLES
  packageName,      \* isDenied argument
  orgName,          \* isDenied argument
  deniedPackages,   \* isDenied argument
  deniedOrgs,       \* isDenied argument
  result,           \* value returned by isDenied
  dpc,              \* "idle" | "input" | "done" : position of the isDenied call
  mode,             \* "approve" | "recreate" | "check" | "none"
  q,                \* DependencyUpdateQuery: IgnoredPRs, DeniedPackages, DeniedOrgs
  pulls,            \* what PullRequests.List answers for the repository
  idx,              \* position of the range loop over pulls / reqs
  reqs,             \* []DependencyUpdateRequest built by GetDependencyUpdates
  prs,              \* []PRInfo built by GetDependabotPRsWithDenyList
  calls,            \* mutating collaborator calls issued so far, in order
  ci,               \* per PR number, what GetCombinedStatus answered ("none": not asked)
  pc,               \* position of the command
  err,              \* error (or panic) the command ended with, "" if none
  args,             \* repository identifiers given on the command line
  repos,            \* repositories check goes through
  ri,               \* position of runCheck's loop over the repositories
  olderThan,        \* --older-than in hours, 0 when the flag is not given
  dryRun,           \* --dry-run
  reads,            \* collaborator calls made so far that change nothing
  edits,            \* calls issued by ClosePullRequests so far, in order
  mergeState,       \* per PR number, its merge state when a review was posted
  olds,             \* []ClosePRInfo built by GetOldLabeledPRs
  cfg,              \* the configuration viper holds: file sections and flags
  cmd,              \* command whose deny lists are resolved
  resolved,         \* DependencyUpdateQuery the command builds from cfg
  cpc,              \* "idle" | "input" | "done" : position of the resolution
  checks,           \* statusCheckRollup entries handed to ciStatus
  ciState,          \* value returned by ciStatus
  kpc,              \* "idle" | "input" | "done" : position of the ciStatus call
  prTitle,          \* title handed to extractPackageInfo
  extracted,        \* value returned by extractPackageInfo
  xpc,              \* "idle" | "input" | "done" : position of the extractPackageInfo call
  flow              \* "gh" | "graphql" | "none" : the approve flow with auto-merge that runs

denyVars == <<packageName, orgName, deniedPackages, deniedOrgs, result, dpc>>
runVars == <<mode, q, pulls, idx, reqs, prs, calls, ci, pc, err,
            args, repos, ri, olderThan, dryRun, reads, edits, mergeState, olds>>
cfgVars == <<cfg, cmd, resolved, cpc>>
ciVars == <<checks, ciState, kpc>>
extVars == <<prTitle, extracted, xpc>>
flowVars == <<flow>>
vars == <<packageName, orgName, deniedPackages, deniedOrgs, result, dpc,
          mode, q, pulls, idx, reqs, prs, calls, ci, pc, err,
          args, repos, ri, olderThan, dryRun, reads, edits, mergeState, olds,
          cfg, cmd, resolved, cpc, checks, ciState, kpc,
          prTitle, extracted, xpc, flow>>

---------------------------------------------------------------------------
(* Bounds *)

MaxNameLen == 3     \* longest exhaustively enumerated package name
MaxEntryLen == 3    \* longest exhaustively enumerated deny entry
MaxDenied == 2      \* longest deny list of the multi-entry inputs
MaxPRs == 2         \* most pull requests the listing answers
MaxChecks == 3      \* most statusCheckRollup entries of one pull request
MaxSegments == 2    \* most path segments after the first of an enumerated package

---------------------------------------------------------------------------
(* Go's strings package, as used by github.go *)

UpperChars == "ABCDEFGHIJKLMNOPQRSTUVWXYZ"
LowerChars == "abcdefghijklmnopqrstuvwxyz"

CharAt(s, i) == SubSeq(s, i, i)

LowerMap ==
  [c \in {CharAt(UpperChars, i) : i \in 1..26} |->
     CharAt(LowerChars, CHOOSE i \in 1..26 : CharAt(UpperChars, i) = c)]

LowerChar(c) == IF c \in DOMAIN LowerMap THEN LowerMap[c] ELSE c

RECURSIVE ToLower(_)
ToLower(s) ==
  IF s = "" THEN ""
  ELSE LowerChar(CharAt(s, 1)) \o ToLower(SubSeq(s, 2, Len(s)))

EqualFold(s, t) == ToLower(s) = ToLower(t)

HasPrefix(s, prefix) ==
  Len(prefix) <= Len(s) /\ SubSeq(s, 1, Len(prefix)) = prefix

HasSuffix(s, suffix) ==
  Len(suffix) <= Len(s) /\ SubSeq(s, Len(s) - Len(suffix) + 1, Len(s)) = suffix

Contains(s, substr) ==
  \E i \in 1..(Len(s) - Len(substr) + 1) : SubSeq(s, i, i + Len(substr) - 1) = substr

Min(S) == CHOOSE x \in S : \A y \in S : x <= y
Max(S) == CHOOSE x \in S : \A y \in S : x >= y

\* positions (1-based) at which substr occurs in s
Occurrences(s, substr) ==
  {i \in 1..(Len(s) - Len(substr) + 1) : SubSeq(s, i, i + Len(substr) - 1) = substr}

\* strings.Index, 0-based as in Go, -1 when substr does not occur
Index(s, substr) ==
  IF Occurrences(s, substr) = {} THEN -1 ELSE Min(Occurrences(s, substr)) - 1

---------------------------------------------------------------------------
(* isDenied, github.go:121-189 *)


\* the wildcard rules with "*rc*" left out
matchWildcard_noRc(pkg, pattern) ==
  \/ pattern = "*alpha*" /\ Contains(pkg, "alpha")
  \/ pattern = "*beta*" /\ Contains(pkg, "beta")
  \/ pattern = "*/v0" /\ HasSuffix(pkg, "/v0")

\* the wildcard rules with "*/v0" matched anywhere in the name
matchWildcard_v0Anywhere(pkg, pattern) ==
  \/ pattern = "*alpha*" /\ Contains(pkg, "alpha")
  \/ pattern = "*beta*" /\ Contains(pkg, "beta")
  \/ pattern = "*rc*" /\ Contains(pkg, "rc")
  \/ pattern = "*/v0" /\ Contains(pkg, "/v0")

\* the four hard-coded wildcard rules; pattern and pkg are lower-cased
matchWildcard(pkg, pattern) ==
  \/ pattern = "*alpha*" /\ Contains(pkg, "alpha")
  \/ pattern = "*beta*" /\ Contains(pkg, "beta")
  \/ pattern = "*rc*" /\ Contains(pkg, "rc")
  \/ pattern = "*/v0" /\ HasSuffix(pkg, "/v0")


\* a non-versioned entry matched as a substring of the name
matchUnversioned_substring(pkgLower, deniedLower) == Contains(pkgLower, deniedLower)

\* a non-versioned entry matched on the whole name only
matchUnversioned_wholeOnly(pkgLower, deniedLower) == pkgLower = deniedLower

\* a non-versioned entry: the whole name, or the name cut at its first '@'
matchUnversioned(pkgLower, deniedLower) ==
  \/ pkgLower = deniedLower
  \/ /\ Index(pkgLower, "@") > 0
     /\ SubSeq(pkgLower, 1, Index(pkgLower, "@")) = deniedLower


\* the loop body with a versioned entry matched as a prefix of the name
matchPackage_versionPrefix(pkg, denied) ==
  IF Contains(denied, "*")
  THEN matchWildcard(ToLower(pkg), ToLower(denied))
  ELSE \/ EqualFold(pkg, denied)
       \/ IF Contains(denied, "@")
          THEN HasPrefix(ToLower(pkg), ToLower(denied))
          ELSE matchUnversioned(ToLower(pkg), ToLower(denied))

\* one iteration of the loop over deniedPackages: TRUE when it returns true
matchPackage(pkg, denied) ==
  IF Contains(denied, "*")
  THEN matchWildcard(ToLower(pkg), ToLower(denied))
  ELSE \/ EqualFold(pkg, denied)
       \/ IF Contains(denied, "@")
          THEN Contains(ToLower(pkg), ToLower(denied))
          ELSE matchUnversioned(ToLower(pkg), ToLower(denied))


\* the organization check comparing case-sensitively
matchOrg_exactCase(org, denied) == org = denied

\* the organization check accepting a denied name inside the organization
matchOrg_substring(org, denied) == Contains(ToLower(org), ToLower(denied))

matchOrg(org, denied) == EqualFold(org, denied)

isDenied(pkg, org, dPackages, dOrgs) ==
  \/ \E i \in 1..Len(dPackages) : matchPackage(pkg, dPackages[i])
  \/ \E j \in 1..Len(dOrgs) : matchOrg(org, dOrgs[j])

---------------------------------------------------------------------------
(* extractPackageInfo, github.go:39-118 *)

\* strings.Split on a one-character separator
RECURSIVE Split(_, _)
Split(s, sep) ==
  IF ~Contains(s, sep) THEN <<s>>
  ELSE <<SubSeq(s, 1, Index(s, sep))>> \o Split(SubSeq(s, Index(s, sep) + 2, Len(s)), sep)

\* strings.Fields; the only white space of the modelled titles is ' '
RECURSIVE Fields(_)
Fields(s) ==
  IF s = "" THEN <<>>
  ELSE IF CharAt(s, 1) = " " THEN Fields(SubSeq(s, 2, Len(s)))
  ELSE LET n == IF Contains(s, " ") THEN Index(s, " ") ELSE Len(s)
       IN  <<SubSeq(s, 1, n)>> \o Fields(SubSeq(s, n + 1, Len(s)))

TrimPrefix(s, prefix) ==
  IF HasPrefix(s, prefix) THEN SubSeq(s, Len(prefix) + 1, Len(s)) ELSE s

\* stands for the two code points of the arrow emoji that opens a bot title
Arrow == "^"

\* the token after the package matches (?:from|to): it starts with either
FromOrTo(tok) == HasPrefix(ToLower(tok), "from") \/ HasPrefix(ToLower(tok), "to")

\* start positions i (in tokens) of a match of
\* (?i)<arrow>\s+\(deps\):\s+[Bb]ump\s+([^\s]+)\s+(?:from|to)
ArrowBumpAt(f) ==
  {i \in 1..(Len(f) - 4) :
     /\ HasSuffix(f[i], Arrow)
     /\ ToLower(f[i + 1]) = "(deps):"
     /\ ToLower(f[i + 2]) = "bump"
     /\ FromOrTo(f[i + 4])}

\* start positions of (?i)<arrow>\s+\(deps\):\s+[Bb]ump\s+the\s+([^\s]+)\s+group
ArrowGroupAt(f) ==
  {i \in 1..(Len(f) - 5) :
     /\ HasSuffix(f[i], Arrow)
     /\ ToLower(f[i + 1]) = "(deps):"
     /\ ToLower(f[i + 2]) = "bump"
     /\ ToLower(f[i + 3]) = "the"
     /\ HasPrefix(ToLower(f[i + 5]), "group")}

\* (?i)^<verb>\s+([^\s]+)\s+(?:from|to), verb being bump or update
LeadingVerb(title, f, verb) ==
  /\ Len(f) >= 3
  /\ CharAt(title, 1) # " "
  /\ ToLower(f[1]) = verb
  /\ FromOrTo(f[3])

\* token positions j where (?i)^chore.*[Bb]ump\s+([^\s]+)\s+(?:from|to) can
\* place its "bump": at the end of token j, after the leading "chore"
ChoreBumpAt(title, f) ==
  {j \in 1..(Len(f) - 2) :
     /\ HasPrefix(ToLower(title), "chore")
     /\ HasSuffix(ToLower(f[j]), "bump")
     /\ (j = 1 => Len(f[1]) >= 9)
     /\ FromOrTo(f[j + 2])}

\* the loop over patterns: the first pattern that matches gives the name
patternPackage(title) ==
  LET f == Fields(title) IN
  IF ArrowBumpAt(f) # {} THEN f[Min(ArrowBumpAt(f)) + 3]
  ELSE IF ArrowGroupAt(f) # {} THEN f[Min(ArrowGroupAt(f)) + 4]
  ELSE IF LeadingVerb(title, f, "bump") THEN f[2]
  ELSE IF LeadingVerb(title, f, "update") THEN f[2]
  ELSE IF ChoreBumpAt(title, f) # {} THEN f[Max(ChoreBumpAt(title, f)) + 1]
  ELSE ""

\* the fallback taking the second token when none holds '/' or '@'
fallbackPackage_anyToken(title) ==
  LET f == Fields(title)
      hits == {i \in 2..Len(f) : Contains(f[i], "/") \/ Contains(f[i], "@")}
  IN  IF hits # {} THEN f[Min(hits)] ELSE IF Len(f) > 1 THEN f[2] ELSE ""

\* the fallback: the first token after the first that holds '/' or '@'
fallbackPackage(title) ==
  LET f == Fields(title)
      hits == {i \in 2..Len(f) : Contains(f[i], "/") \/ Contains(f[i], "@")}
  IN  IF hits # {} THEN f[Min(hits)] ELSE ""

extractPackageName(title) ==
  LET name == patternPackage(title)
  IN  IF name # "" THEN name ELSE fallbackPackage(title)

\* the last branch: the first segment after the first one that holds no '.'
\* and does not start with "v"
fallbackOrg(parts) ==
  LET hits == {i \in 2..Len(parts) :
                 ~Contains(parts[i], ".") /\ ~HasPrefix(parts[i], "v")}
  IN  IF hits # {} THEN parts[Min(hits)] ELSE ""

\* the organization keeping the letter case of a gopkg.in owner
extractOrgName_gopkgKeepCase(pkg) ==
  LET parts == Split(pkg, "/") IN
  IF pkg = "" THEN ""
  ELSE IF HasPrefix(pkg, "@") /\ Contains(pkg, "/") THEN TrimPrefix(parts[1], "@")
  ELSE IF ~Contains(pkg, "/") THEN ""
  ELSE IF HasPrefix(pkg, "golang.org/x/") \/ HasPrefix(pkg, "google.golang.org/") THEN ""
  ELSE IF HasPrefix(pkg, "gopkg.in/")
       THEN (IF Len(parts) > 2 THEN parts[2] ELSE "")
  ELSE IF Len(parts) >= 3 /\ HasPrefix(pkg, "github.com/") THEN parts[2]
  ELSE fallbackOrg(parts)

extractOrgName(pkg) ==
  LET parts == Split(pkg, "/") IN
  IF pkg = "" THEN ""
  ELSE IF HasPrefix(pkg, "@") /\ Contains(pkg, "/") THEN TrimPrefix(parts[1], "@")
  ELSE IF ~Contains(pkg, "/") THEN ""
  ELSE IF HasPrefix(pkg, "golang.org/x/") \/ HasPrefix(pkg, "google.golang.org/") THEN ""
  ELSE IF HasPrefix(pkg, "gopkg.in/")
       THEN (IF Len(parts) > 2 THEN ToLower(parts[2]) ELSE "")
  ELSE IF Len(parts) >= 3 /\ HasPrefix(pkg, "github.com/") THEN parts[2]
  ELSE fallbackOrg(parts)

extractPackageInfo(title) ==
  LET name == extractPackageName(title)
  IN  [packageName |-> name, orgName |-> extractOrgName(name)]

---------------------------------------------------------------------------
(* Inputs of the isDenied calls *)

\* characters of the exhaustively enumerated deny entries and package names
Alphabet == {"a", "A", "@", "*"}
NameAlphabet == {"a", "A", "@"}

RECURSIVE Strs(_, _)
Strs(A, n) ==
  IF n = 0 THEN {""}
  ELSE Strs(A, n - 1) \cup {s \o c : s \in Strs(A, n - 1), c \in A}

\* package names and deny entries of the project's tests and README
Cores ==
  {"alpha", "beta", "rc", "RC", "api/v0", "api/V0",
   "aws-sdk-go", "aws-sdk-go-v2", "pkg", "pkg@v1", "PKG@V1"}

Names ==
  Strs(NameAlphabet, MaxNameLen) \cup
  {pre \o core \o post : pre \in {"", "x/"}, core \in Cores, post \in {"", ".2"}}

Entries ==
  Strs(Alphabet, MaxEntryLen) \cup
  {"*alpha*", "*ALPHA*", "*beta*", "*rc*", "*Rc*", "*/v0", "*/V0", "*v0",
   "*pha", "rc*", "alpha*", "x/*", "*pkg*", "aws-sdk-go", "AWS-SDK-GO",
   "pkg", "pkg@v1", "Pkg@V1", "x/pkg"}

OrgNames == {"", "dd", "EL", "xdd"}

ListNames == {"", "pkg", "pkg-v2", "PKG@v1.2", "x/rc1", "@dd/rum"}
ListEntries == {"pkg", "Pkg", "pkg@v1", "*rc*"}
ListOrgs == {"Dd", "el"}

RECURSIVE Lists(_, _)
Lists(S, n) ==
  IF n = 0 THEN {<<>>}
  ELSE Lists(S, n - 1) \cup {Append(l, e) : l \in Lists(S, n - 1), e \in S}

---------------------------------------------------------------------------
(* Deny lists of a command: getStringSlice, removeDuplicates and the merge *)
(* of runDependencyUpdate / runCheck, commands.go:141-161, 209-252, 304-331 *)

\* strings.TrimSpace; the only white space of the modelled entries is ' '
RECURSIVE TrimLeft(_)
TrimLeft(s) ==
  IF s # "" /\ CharAt(s, 1) = " " THEN TrimLeft(SubSeq(s, 2, Len(s))) ELSE s

RECURSIVE TrimRight(_)
TrimRight(s) ==
  IF s # "" /\ CharAt(s, Len(s)) = " " THEN TrimRight(SubSeq(s, 1, Len(s) - 1)) ELSE s

TrimSpace(s) == TrimRight(TrimLeft(s))

\* the key removeDuplicates remembers an item by
normalized(item) == ToLower(TrimSpace(item))

\* the test of the loop body with blank items let through
keepsItem_blankToo(item, seen) == normalized(item) \notin seen

\* if normalized != "" && !seen[normalized]
keepsItem(item, seen) == normalized(item) # "" /\ normalized(item) \notin seen

\* the loop of removeDuplicates over the rest of the slice, seen being the
\* keys already kept
RECURSIVE dedupFrom(_, _)
dedupFrom(slice, seen) ==
  IF slice = <<>> THEN <<>>
  ELSE LET item == Head(slice) IN
       IF keepsItem(item, seen)
       THEN <<item>> \o dedupFrom(Tail(slice), seen \cup {normalized(item)})
       ELSE dedupFrom(Tail(slice), seen)

removeDuplicates(slice) == dedupFrom(slice, {})

\* keys of the 'repositories' section of the configuration file
RepoKeys == {"o/r", "o/x"}

\* getStringSlice / getIntSlice on "repositories.<repoKey>.<name>": the empty
\* slice when the key is not set
repoSetting(c, repoKey, name) ==
  IF repoKey \in DOMAIN c.repositories THEN c.repositories[repoKey][name] ELSE <<>>

\* does the command append the --deny-packages / --deny-orgs flags
\* (runDependencyUpdate does, runCheck does not)
readsFlags(command) == command \in {"approve", "recreate"}

\* does the command read the repository's ignored_prs (runCheck does not)
readsIgnored(command) == command \in {"approve", "recreate"}

\* the DependencyUpdateQuery a command builds for one repository
buildQuery(command, repoKey, c) ==
  LET packages == c.global.denied_packages
                    \o repoSetting(c, repoKey, "denied_packages")
                    \o (IF readsFlags(command) THEN c.flags.deny_packages ELSE <<>>)
      orgs == c.global.denied_orgs
                \o repoSetting(c, repoKey, "denied_orgs")
                \o (IF readsFlags(command) THEN c.flags.deny_orgs ELSE <<>>)
  IN  [IgnoredPRs |-> IF readsIgnored(command)
                      THEN repoSetting(c, repoKey, "ignored_prs") ELSE <<>>,
       DeniedPackages |-> removeDuplicates(packages),
       DeniedOrgs |-> removeDuplicates(orgs)]

EmptyConfig ==
  [global |-> [denied_packages |-> <<>>, denied_orgs |-> <<>>],
   repositories |-> [k \in RepoKeys |->
                       [denied_packages |-> <<>>, denied_orgs |-> <<>>, ignored_prs |-> <<>>]],
   flags |-> [deny_packages |-> <<>>, deny_orgs |-> <<>>]]

EmptyQuery == [IgnoredPRs |-> <<>>, DeniedPackages |-> <<>>, DeniedOrgs |-> <<>>]

CfgIdle ==
  /\ cfg = EmptyConfig
  /\ cmd = [name |-> "none", repo |-> ""]
  /\ resolved = EmptyQuery
  /\ cpc = "idle"

---------------------------------------------------------------------------
(* ciStatus of the gh-based listing (ListDependabotPRs)                    *)

PassingConclusions == {"SUCCESS", "SKIPPED", "NEUTRAL"}

\* the range loop of ciStatus from entry i on
RECURSIVE ciStatusFrom(_, _)
ciStatusFrom(cs, i) ==
  IF i > Len(cs) THEN "success"
  ELSE IF cs[i].Status # "COMPLETED" THEN "pending"
  ELSE IF cs[i].Conclusion \in PassingConclusions THEN ciStatusFrom(cs, i + 1)
  ELSE "failure"

ciStatus(cs) == IF Len(cs) = 0 THEN "pending" ELSE ciStatusFrom(cs, 1)

CiIdle ==
  /\ checks = <<>>
  /\ ciState = ""
  /\ kpc = "idle"

FlowIdle == flow = "none"

ExtIdle ==
  /\ prTitle = ""
  /\ extracted = [packageName |-> "", orgName |-> ""]
  /\ xpc = "idle"

---------------------------------------------------------------------------
(* The isDenied call as a state machine: inputs are drawn, then evaluated *)

RunIdle ==
  /\ mode = "none"
  /\ q = [IgnoredPRs |-> <<>>, DeniedPackages |-> <<>>, DeniedOrgs |-> <<>>]
  /\ pulls = <<>>
  /\ idx = 0
  /\ reqs = <<>>
  /\ prs = <<>>
  /\ calls = <<>>
  /\ ci = <<>>
  /\ pc = "idle"
  /\ err = ""
  /\ args = <<>>
  /\ repos = <<>>
  /\ ri = 0
  /\ olderThan = 0
  /\ dryRun = FALSE
  /\ reads = {}
  /\ edits = <<>>
  /\ mergeState = <<>>
  /\ olds = <<>>

\* one deny entry, no denied organization
SingleEntryInput ==
  /\ packageName \in Names
  /\ orgName = ""
  /\ \E d \in Entries : deniedPackages = <<d>>
  /\ deniedOrgs = <<>>

\* deny lists of several entries and denied organizations
ListInput ==
  /\ packageName \in ListNames
  /\ orgName \in OrgNames
  /\ deniedPackages \in Lists(ListEntries, MaxDenied)
  /\ deniedOrgs \in Lists(ListOrgs, MaxDenied)

DenyInit ==
  /\ SingleEntryInput \/ ListInput
  /\ result = FALSE
  /\ dpc = "input"
  /\ RunIdle
  /\ CfgIdle
  /\ CiIdle
  /\ ExtIdle
  /\ FlowIdle

Evaluate ==
  /\ dpc = "input"
  /\ result' = isDenied(packageName, orgName, deniedPackages, deniedOrgs)
  /\ dpc' = "done"
  /\ UNCHANGED <<packageName, orgName, deniedPackages, deniedOrgs>>
  /\ UNCHANGED <<runVars, cfgVars, ciVars, extVars, flowVars>>

DenyNext == Evaluate

SpecDeny == DenyInit /\ [][DenyNext]_vars

---------------------------------------------------------------------------
(* One run of approve, recreate, check or close:                           *)
(* runDependencyUpdate / runCheck / runClose (commands.go) over            *)
(* GetDependencyUpdates, ApprovePullRequests, RecreatePullRequests,        *)
(* GetDependabotPRsWithDenyList, GetOldLabeledPRs and ClosePullRequests    *)
(* (github.go)                                                             *)

dependabotUserID == 49699333

UserIDs == {dependabotUserID, 583231}

Titles ==
  {"Bump github.com/aws/aws-sdk-go from 1.5 to 1.6",
   "^ (deps): bump gopkg.in/DataDog/dd-trace-go.v1 from 1.7 to 1.8",
   "^ (deps): Bump github.com/redis/go-redis/v9 from 9.1 to 9.2",
   "Update dependencies"}

\* titles of a repository whose deny list holds wildcard and partial entries
ReportTitles ==
  {"Bump github.com/x/alpha-sdk from 1 to 2",
   "Bump github.com/aws/aws-sdk-go from 1.5 to 1.6",
   "Update dependencies"}

\* extractPackageInfo of each title, computed once
titleInfo == [t \in Titles \cup ReportTitles |-> extractPackageInfo(t)]

\* the open pull requests of the repository; the k-th has number k
PullLists ==
  UNION {[1..n -> [UserID : UserIDs, Title : Titles]] : n \in 0..MaxPRs}

Pull(l, k) == [Number |-> k, UserID |-> l[k].UserID, Title |-> l[k].Title]

IgnoreChoices == {<<>>, <<1>>, <<2, 1>>}

\* what GetCombinedStatus can answer; "error" is a failed call
StatusAnswers == {"success", "failure", "pending", "error"}

\* merge states GitHub reports for a pull request
MergeStates == {"CLEAN", "BEHIND", "DIRTY"}

\* the repository identifier of approve, recreate and close
RepoArgs == {"o/r", "o", "o/r/x"}

\* what a user may pass to check: no identifier, or well-formed and
\* malformed identifiers
CheckArgs == {<<>>, <<"o", "o/r", "o/r/x">>}

\* the configuration of the run: blank and repeated entries included
RunConfig(ign) ==
  [global |-> [denied_packages |-> <<"github.com/aws/aws-sdk-go", " ">>,
               denied_orgs |-> <<"DataDog">>],
   repositories |->
     [k \in RepoKeys |->
        IF k = "o/r"
        THEN [denied_packages |-> <<"*alpha*", "GitHub.com/AWS/aws-sdk-go">>,
              denied_orgs |-> <<"">>, ignored_prs |-> ign]
        ELSE [denied_packages |-> <<>>, denied_orgs |-> <<"datadog ">>,
              ignored_prs |-> <<>>]],
   flags |-> [deny_packages |-> <<>>, deny_orgs |-> <<>>]]

\* labels and age (in hours) of the pull requests the close listing answers
ClosePulls == [Labels : {<<>>, <<"Dependencies">>}, Age : {100, 800}]

RunInit ==
  /\ mode \in {"approve", "recreate", "check", "close"}
  /\ IF mode = "check"
     THEN args \in CheckArgs
     ELSE \E a \in RepoArgs : args = <<a>>
  /\ IF mode \in {"approve", "recreate"}
     THEN \E ign \in IgnoreChoices : cfg = RunConfig(ign)
     ELSE IF mode = "check" /\ args = <<>>
     THEN cfg \in {RunConfig(<<>>), [RunConfig(<<>>) EXCEPT !.repositories = <<>>]}
     ELSE cfg = RunConfig(<<>>)
  /\ IF mode = "close"
     THEN olderThan \in {0, 720} /\ dryRun \in BOOLEAN
     ELSE olderThan = 0 /\ dryRun = FALSE
  /\ q = EmptyQuery
  /\ pulls = <<>>
  /\ idx = 0
  /\ ri = 0
  /\ repos = <<>>
  /\ reqs = <<>>
  /\ prs = <<>>
  /\ calls = <<>>
  /\ edits = <<>>
  /\ reads = {}
  /\ ci = <<>>
  /\ mergeState = <<>>
  /\ olds = <<>>
  /\ pc = "start"
  /\ err = ""
  /\ cmd = [name |-> "none", repo |-> ""]
  /\ resolved = EmptyQuery
  /\ cpc = "idle"

DenyIdle ==
  /\ packageName = "" /\ orgName = ""
  /\ deniedPackages = <<>> /\ deniedOrgs = <<>>
  /\ result = FALSE /\ dpc = "idle"


\* the ignore check reading only the first ignored number
isExcluded_firstOnly(p, query) ==
  Len(query.IgnoredPRs) >= 1 /\ query.IgnoredPRs[1] = p.Number

\* GetDependencyUpdates: excluded[*p.Number]
isExcluded(p, query) == \E i \in 1..Len(query.IgnoredPRs) : query.IgnoredPRs[i] = p.Number


\* the author check accepting any author
isDependabot_anyUser(p) == p.UserID \in UserIDs

\* p.GetUser().GetID() == dependabotUserID
isDependabot(p) == p.UserID = dependabotUserID


\* the deny check without the denied organizations
deniedByPolicy_packagesOnly(p, query) ==
  LET info == titleInfo[p.Title]
  IN  isDenied(info.packageName, info.orgName, query.DeniedPackages, <<>>)

\* the deny check on the PR's title
deniedByPolicy(p, query) ==
  LET info == titleInfo[p.Title]
  IN  isDenied(info.packageName, info.orgName, query.DeniedPackages, query.DeniedOrgs)


\* the CI gate letting pending through
statusPasses_notFailure(state) == state # "failure"

\* status.GetState() == "success"
statusPasses(state) == state = "success"

updateRequest(p) ==
  [PullRequestNumber |-> p.Number, Title |-> p.Title,
   PackageName |-> titleInfo[p.Title].packageName]


\* the identifier test accepting every identifier
wellFormed_any(arg) == TRUE

\* parts := strings.Split(arg, "/"); len(parts) == 2
wellFormed(arg) == Len(Split(arg, "/")) = 2


\* every command going through GetDependencyUpdates and the review loop
listing_updates(m) == "updates"

\* the listing a command uses: runCheck reports with
\* GetDependabotPRsWithDenyList, runDependencyUpdate acts on
\* GetDependencyUpdates, runClose closes what GetOldLabeledPRs returns
listing(m) ==
  IF m = "check" THEN "report" ELSE IF m = "close" THEN "old" ELSE "updates"

\* the RunE closures of approveCmd, recreateCmd and closeCmd test the
\* identifier before they call runDependencyUpdate / runClose; checkCmd runs
\* runCheck at once
ParseArgs ==
  /\ pc = "start"
  /\ IF mode # "check" /\ ~wellFormed(args[1])
     THEN pc' = "done" /\ err' = "invalid repository format"
     ELSE pc' = "token" /\ err' = ""
  /\ UNCHANGED <<mode, q, pulls, idx, reqs, prs, calls, ci,
                 args, repos, ri, olderThan, dryRun, reads, edits, mergeState, olds>>
  /\ UNCHANGED <<denyVars, cfgVars, ciVars, extVars, flowVars>>

\* the orders in which a sequence can list the elements of S
Orders(S) == {o \in [1..Cardinality(S) -> S] : \A x \in S : \E i \in DOMAIN o : o[i] = x}

\* the repositories runCheck goes through: its arguments or, without any,
\* the keys of the configured repositories in the order the map yields them
checkedRepos(arguments, c) ==
  IF Len(arguments) > 0 THEN {arguments} ELSE Orders(DOMAIN c.repositories)

\* resolveGitHubToken, and what the command does with the token before its
\* first call to GitHub: the token is configured, or gh is run and answers
\* with a token or fails; then runDependencyUpdate builds its query, runClose
\* tests --older-than, runCheck tests that it has repositories
ResolveToken ==
  /\ pc = "token"
  /\ \E configured \in BOOLEAN, ghAnswers \in BOOLEAN :
       /\ configured => ghAnswers
       /\ reads' = IF configured THEN reads ELSE reads \cup {"gh auth token"}
       /\ IF ~configured /\ ~ghAnswers
          THEN pc' = "done" /\ err' = "GitHub token not found" /\ UNCHANGED <<q, ri, repos>>
          ELSE IF mode = "close"
          THEN /\ IF olderThan = 0
                  THEN pc' = "done" /\ err' = "--older-than flag is required"
                  ELSE pc' = "list" /\ err' = ""
               /\ UNCHANGED <<q, ri, repos>>
          ELSE IF mode = "check"
          THEN /\ repos' \in checkedRepos(args, cfg)
               /\ IF Len(repos') = 0
                  THEN pc' = "done" /\ err' = "no repositories specified"
                  ELSE pc' = "repo" /\ err' = ""
               /\ ri' = 1
               /\ UNCHANGED q
          ELSE /\ q' = buildQuery(mode, args[1], cfg)
               /\ pc' = "list" /\ err' = ""
               /\ UNCHANGED <<ri, repos>>
  /\ UNCHANGED <<mode, pulls, idx, reqs, prs, calls, ci,
                 args, olderThan, dryRun, edits, mergeState, olds>>
  /\ UNCHANGED <<denyVars, cfgVars, ciVars, extVars, flowVars>>

\* the head of one iteration of runCheck's loop: a malformed identifier is
\* printed and skipped, else the query of the repository is built; after the
\* last repository runCheck returns nil
NextRepo ==
  /\ pc = "repo"
  /\ IF ri > Len(repos)
     THEN pc' = "done" /\ UNCHANGED <<ri, q>>
     ELSE IF ~wellFormed(repos[ri])
     THEN ri' = ri + 1 /\ UNCHANGED <<pc, q>>
     ELSE /\ q' = buildQuery(mode, repos[ri], cfg)
          /\ pc' = "list"
          /\ UNCHANGED ri
  /\ UNCHANGED <<mode, pulls, idx, reqs, prs, calls, ci, err,
                 args, repos, olderThan, dryRun, reads, edits, mergeState, olds>>
  /\ UNCHANGED <<denyVars, cfgVars, ciVars, extVars, flowVars>>

\* the repository the command is working on
currentRepo == IF mode = "check" THEN repos[ri] ELSE args[1]

\* a failed listing ending the command whatever the command is
onListError_abort(m) ==
  [pc |-> "done", err |-> "failed to get dependency updates", skip |-> 0]

\* what the command does when its listing fails: runCheck prints the error
\* and continues with the next repository, runDependencyUpdate returns it
onListError(m) ==
  IF listing(m) = "report"
  THEN [pc |-> "repo", err |-> "", skip |-> 1]
  ELSE [pc |-> "done", err |-> "failed to get dependency updates", skip |-> 0]

\* PullRequests.List of GetDependencyUpdates / GetDependabotPRsWithDenyList:
\* the pull requests, or an error; the error ends approve and recreate, and
\* makes check print it and go to the next repository
ListPulls ==
  /\ pc = "list" /\ listing(mode) # "old"
  /\ reads' = reads \cup {"PullRequests.List " \o currentRepo}
  /\ \/ \E l \in PullLists :
          /\ pulls' = [k \in 1..Len(l) |-> Pull(l, k)]
          /\ ci' = [k \in 1..Len(l) |-> "none"]
          /\ mergeState' = [k \in 1..Len(l) |-> "none"]
          /\ pc' = "filter" /\ idx' = 1 /\ err' = ""
          /\ UNCHANGED ri
     \/ /\ UNCHANGED <<pulls, ci, mergeState, idx>>
        /\ pc' = onListError(mode).pc
        /\ err' = onListError(mode).err
        /\ ri' = ri + onListError(mode).skip
  /\ UNCHANGED <<mode, q, reqs, prs, calls, args, repos, olderThan, dryRun, edits, olds>>
  /\ UNCHANGED <<denyVars, cfgVars, ciVars, extVars, flowVars>>

\* one iteration of the loop of GetDependencyUpdates (approve and recreate)
FilterStep ==
  /\ pc = "filter" /\ listing(mode) = "updates" /\ idx <= Len(pulls)
  /\ LET p == pulls[idx]
         skipFailing == (mode # "recreate")
     IN
     IF isExcluded(p, q) \/ ~isDependabot(p) \/ deniedByPolicy(p, q)
     THEN /\ idx' = idx + 1
          /\ UNCHANGED <<reqs, ci, pc, err, reads>>
     ELSE IF ~skipFailing
     THEN /\ reqs' = Append(reqs, updateRequest(p))
          /\ idx' = idx + 1
          /\ UNCHANGED <<ci, pc, err, reads>>
     ELSE \E answer \in StatusAnswers :
            /\ ci' = [ci EXCEPT ![p.Number] = answer]
            /\ reads' = reads \cup {"GetCombinedStatus"}
            /\ IF answer = "error"
               THEN /\ reqs' = <<>>
                    /\ pc' = "done"
                    /\ err' = "failed to get dependency updates"
                    /\ idx' = idx
               ELSE /\ reqs' = (IF statusPasses(answer)
                                THEN Append(reqs, updateRequest(p)) ELSE reqs)
                    /\ idx' = idx + 1
                    /\ UNCHANGED <<pc, err>>
  /\ UNCHANGED <<mode, q, pulls, prs, calls,
                 args, repos, ri, olderThan, dryRun, edits, mergeState, olds>>
  /\ UNCHANGED <<denyVars, cfgVars, ciVars, extVars, flowVars>>

\* pr.SkipReason as GetDependabotPRsWithDenyList words it
skipReason(pkg, org, query) ==
  LET orgHit == org # "" /\ \E j \in 1..Len(query.DeniedOrgs) : EqualFold(org, query.DeniedOrgs[j])
      pkgHits == {i \in 1..Len(query.DeniedPackages) :
                    \/ EqualFold(pkg, query.DeniedPackages[i])
                    \/ Contains(ToLower(pkg), ToLower(query.DeniedPackages[i]))}
  IN  IF orgHit THEN "org '" \o org \o "' is denied"
      ELSE IF pkg # "" /\ pkgHits # {}
           THEN "package '" \o query.DeniedPackages[Min(pkgHits)] \o "' is denied"
      ELSE ""

\* one iteration of the loop of GetDependabotPRsWithDenyList (check)
CheckStep ==
  /\ pc = "filter" /\ listing(mode) = "report" /\ idx <= Len(pulls)
  /\ LET p == pulls[idx]
         info == titleInfo[p.Title]
         denied == deniedByPolicy(p, q)
     IN
     IF ~isDependabot(p)
     THEN UNCHANGED <<prs, ci, reads>>
     ELSE \E answer \in StatusAnswers :
            /\ ci' = [ci EXCEPT ![p.Number] = answer]
            /\ reads' = reads \cup {"GetCombinedStatus"}
            /\ prs' = Append(prs,
                 [Number |-> p.Number, Title |-> p.Title,
                  Skipped |-> denied,
                  SkipReason |-> IF denied
                                 THEN skipReason(info.packageName, info.orgName, q)
                                 ELSE "",
                  Status |-> IF answer = "error" THEN "" ELSE answer])
  /\ idx' = idx + 1
  /\ UNCHANGED <<mode, q, pulls, reqs, calls, pc, err,
                 args, repos, ri, olderThan, dryRun, edits, mergeState, olds>>
  /\ UNCHANGED <<denyVars, cfgVars, ciVars, extVars, flowVars>>

\* the listing returns: check prints the report of the repository and goes
\* to the next one (its prs and pulls are locals of the loop body); approve
\* and recreate go on to the reviews unless there is nothing to process
FilterReturn ==
  /\ pc = "filter" /\ idx > Len(pulls)
  /\ IF listing(mode) = "report"
     THEN /\ pc' = "repo" /\ ri' = ri + 1
          /\ idx' = 0 /\ pulls' = <<>> /\ prs' = <<>> /\ ci' = <<>> /\ mergeState' = <<>>
     ELSE /\ IF Len(reqs) = 0
             THEN pc' = "done" /\ idx' = idx
             ELSE pc' = "act" /\ idx' = 1
          /\ UNCHANGED <<ri, pulls, prs, ci, mergeState>>
  /\ UNCHANGED <<mode, q, reqs, calls, err, args, repos, olderThan, dryRun, reads, edits, olds>>
  /\ UNCHANGED <<denyVars, cfgVars, ciVars, extVars, flowVars>>

\* the review ApprovePullRequests / RecreatePullRequests posts
reviewOf(m) == IF m = "recreate" THEN "recreate" ELSE "approve"

\* one iteration of the loop of ApprovePullRequests / RecreatePullRequests:
\* CreateReview succeeds, or fails and the loop panics.  The merge state of
\* the pull request is whatever GitHub holds; neither loop asks for it.
ActStep ==
  /\ pc = "act" /\ idx <= Len(reqs)
  /\ \E ok \in BOOLEAN :
       /\ calls' = Append(calls, [op |-> reviewOf(mode),
                                  pr |-> reqs[idx].PullRequestNumber, ok |-> ok])
       /\ IF ok
          THEN /\ \E ms \in MergeStates :
                    mergeState' = [mergeState EXCEPT ![reqs[idx].PullRequestNumber] = ms]
               /\ idx' = idx + 1
               /\ UNCHANGED <<pc, err>>
          ELSE /\ idx' = idx /\ pc' = "done" /\ err' = "panic"
               /\ UNCHANGED mergeState
  /\ UNCHANGED <<mode, q, pulls, reqs, prs, ci,
                 args, repos, ri, olderThan, dryRun, reads, edits, olds>>
  /\ UNCHANGED <<denyVars, cfgVars, ciVars, extVars, flowVars>>

ActReturn ==
  /\ pc = "act" /\ idx > Len(reqs)
  /\ pc' = "done"
  /\ UNCHANGED <<mode, q, pulls, idx, reqs, prs, calls, ci, err,
                 args, repos, ri, olderThan, dryRun, reads, edits, mergeState, olds>>
  /\ UNCHANGED <<denyVars, cfgVars, ciVars, extVars, flowVars>>

\* hasLabel and the age test of GetOldLabeledPRs; label is "dependencies"
isOldLabeled(p, maxAge) ==
  /\ \E i \in 1..Len(p.Labels) : EqualFold(p.Labels[i], "dependencies")
  /\ p.Age >= maxAge

RECURSIVE SelectOld(_, _)
SelectOld(page, maxAge) ==
  IF page = <<>> THEN <<>>
  ELSE (IF isOldLabeled(Head(page), maxAge) THEN <<Head(page).Number>> ELSE <<>>)
         \o SelectOld(Tail(page), maxAge)

\* one page of GetOldLabeledPRs: PullRequests.List fails and runClose returns
\* the error, or it answers a page; after the last page (NextPage == 0)
\* runClose returns when nothing matched or --dry-run is set
ListOldPage ==
  /\ pc = "list" /\ listing(mode) = "old"
  /\ reads' = reads \cup {"PullRequests.List " \o currentRepo}
  /\ \/ /\ pc' = "done" /\ err' = "failed to get old PRs"
        /\ olds' = <<>>
        /\ UNCHANGED <<pulls, idx>>
     \/ \E n \in 0..(MaxPRs - Len(pulls)), more \in BOOLEAN :
        \E l \in [1..n -> ClosePulls] :
          LET page == [k \in 1..n |->
                         [Number |-> Len(pulls) + k, Labels |-> l[k].Labels, Age |-> l[k].Age]]
              found == olds \o SelectOld(page, olderThan)
          IN  /\ more => (n > 0 /\ Len(pulls) + n < MaxPRs)
              /\ pulls' = pulls \o page
              /\ olds' = found
              /\ err' = ""
              /\ IF more THEN pc' = "list" /\ idx' = idx
                 ELSE IF Len(found) = 0 \/ dryRun THEN pc' = "done" /\ idx' = idx
                 ELSE pc' = "close" /\ idx' = 1
  /\ UNCHANGED <<mode, q, reqs, prs, calls, ci,
                 args, repos, ri, olderThan, dryRun, edits, mergeState>>
  /\ UNCHANGED <<denyVars, cfgVars, ciVars, extVars, flowVars>>

\* the loop body closing the pull request although its comment failed
closeCalls_closeAnyway(n, commented, closed) ==
  <<[op |-> "comment", pr |-> n, ok |-> commented],
    [op |-> "close", pr |-> n, ok |-> closed]>>

\* the calls of one iteration of the loop of ClosePullRequests:
\* Issues.CreateComment and, unless it failed, PullRequests.Edit
closeCalls(n, commented, closed) ==
  <<[op |-> "comment", pr |-> n, ok |-> commented]>>
    \o (IF commented THEN <<[op |-> "close", pr |-> n, ok |-> closed]>> ELSE <<>>)

\* one iteration of the loop of ClosePullRequests: the comment, then the
\* edit that closes; the first failed call returns the error
CloseStep ==
  /\ pc = "close" /\ idx <= Len(olds)
  /\ \E commented \in BOOLEAN, closed \in BOOLEAN :
       /\ edits' = edits \o closeCalls(olds[idx], commented, closed)
       /\ IF commented /\ closed
          THEN idx' = idx + 1 /\ UNCHANGED <<pc, err>>
          ELSE idx' = idx /\ pc' = "done" /\ err' = "failed to close PRs"
  /\ UNCHANGED <<mode, q, pulls, reqs, prs, calls, ci,
                 args, repos, ri, olderThan, dryRun, reads, mergeState, olds>>
  /\ UNCHANGED <<denyVars, cfgVars, ciVars, extVars, flowVars>>

CloseReturn ==
  /\ pc = "close" /\ idx > Len(olds)
  /\ pc' = "done"
  /\ UNCHANGED <<mode, q, pulls, idx, reqs, prs, calls, ci, err,
                 args, repos, ri, olderThan, dryRun, reads, edits, mergeState, olds>>
  /\ UNCHANGED <<denyVars, cfgVars, ciVars, extVars, flowVars>>

Init == RunInit /\ DenyIdle /\ CiIdle /\ ExtIdle /\ FlowIdle

Next ==
  \/ ParseArgs
  \/ ResolveToken
  \/ NextRepo
  \/ ListPulls
  \/ FilterStep
  \/ CheckStep
  \/ FilterReturn
  \/ ActStep
  \/ ActReturn
  \/ ListOldPage
  \/ CloseStep
  \/ CloseReturn

Spec == Init /\ [][Next]_vars

\* the configuration of a check run: one denied organization, and the two
\* configured repositories without rules of their own
CheckConfig ==
  [EmptyConfig EXCEPT !.global = [denied_packages |-> <<>>, denied_orgs |-> <<"AWS">>]]

\* a check run by itself; the command is one sequential process whose every
\* step is taken once it is enabled, and every call to GitHub returns
CheckRunInit ==
  /\ mode = "check"
  /\ args \in CheckArgs
  /\ IF args = <<>>
     THEN cfg \in {CheckConfig, [CheckConfig EXCEPT !.repositories = <<>>]}
     ELSE cfg = CheckConfig
  /\ olderThan = 0 /\ dryRun = FALSE
  /\ q = EmptyQuery
  /\ pulls = <<>> /\ idx = 0 /\ ri = 0 /\ repos = <<>>
  /\ reqs = <<>> /\ prs = <<>> /\ calls = <<>> /\ edits = <<>> /\ olds = <<>>
  /\ reads = {} /\ ci = <<>> /\ mergeState = <<>>
  /\ pc = "start" /\ err = ""
  /\ cmd = [name |-> "none", repo |-> ""]
  /\ resolved = EmptyQuery
  /\ cpc = "idle"
  /\ DenyIdle /\ CiIdle /\ ExtIdle /\ FlowIdle

CheckNext ==
  \/ ParseArgs
  \/ ResolveToken
  \/ NextRepo
  \/ ListPulls
  \/ CheckStep
  \/ FilterReturn

SpecCheck == CheckRunInit /\ [][CheckNext]_vars /\ WF_vars(CheckNext)

---------------------------------------------------------------------------
(* The deny lists of a command as a state machine: a configuration is      *)
(* drawn, then the command builds its query                                *)

GlobalPool == {"pkg", " Pkg ", "lib", " "}

ConfigInputs ==
  {[global |-> [denied_packages |-> gp, denied_orgs |-> go],
    repositories |->
      [k \in RepoKeys |->
         IF k = "o/r"
         THEN [denied_packages |-> rp, denied_orgs |-> <<>>, ignored_prs |-> <<1>>]
         ELSE [denied_packages |-> <<"other">>, denied_orgs |-> <<"OtherOrg">>,
               ignored_prs |-> <<2>>]],
    flags |-> [deny_packages |-> fp, deny_orgs |-> fo]] :
     gp \in Lists(GlobalPool, MaxDenied),
     go \in {<<>>, <<"DataDog">>},
     rp \in {<<>>, <<"PKG">>, <<"rep">>},
     fp \in {<<>>, <<"">>, <<"cli", "pkg ">>},
     fo \in {<<>>, <<"datadog", "El">>}}

\* the command and the repository it is run on; "o/n" has no section
CommandInputs ==
  {[name |-> n, repo |-> r] : n \in {"approve", "recreate", "check"}, r \in {"o/r", "o/n"}}

ConfigInit ==
  /\ cfg \in ConfigInputs
  /\ cmd \in CommandInputs
  /\ resolved = EmptyQuery
  /\ cpc = "input"
  /\ RunIdle
  /\ DenyIdle
  /\ CiIdle
  /\ ExtIdle
  /\ FlowIdle

BuildQuery ==
  /\ cpc = "input"
  /\ resolved' = buildQuery(cmd.name, cmd.repo, cfg)
  /\ cpc' = "done"
  /\ UNCHANGED <<cfg, cmd>>
  /\ UNCHANGED <<runVars, denyVars, ciVars, extVars, flowVars>>

ConfigNext == BuildQuery

SpecConfig == ConfigInit /\ [][ConfigNext]_vars

---------------------------------------------------------------------------
(* The ciStatus call as a state machine                                    *)

CheckEntries ==
  {[Status |-> "COMPLETED", Conclusion |-> "SUCCESS"],
   [Status |-> "COMPLETED", Conclusion |-> "SKIPPED"],
   [Status |-> "COMPLETED", Conclusion |-> "NEUTRAL"],
   [Status |-> "COMPLETED", Conclusion |-> "FAILURE"],
   [Status |-> "COMPLETED", Conclusion |-> "CANCELLED"],
   [Status |-> "IN_PROGRESS", Conclusion |-> ""]}

CiInit ==
  /\ checks \in Lists(CheckEntries, MaxChecks)
  /\ ciState = ""
  /\ kpc = "input"
  /\ RunIdle
  /\ DenyIdle
  /\ CfgIdle
  /\ ExtIdle
  /\ FlowIdle

Reduce ==
  /\ kpc = "input"
  /\ ciState' = ciStatus(checks)
  /\ kpc' = "done"
  /\ UNCHANGED checks
  /\ UNCHANGED <<runVars, denyVars, cfgVars, extVars, flowVars>>

CiNext == Reduce

SpecCI == CiInit /\ [][CiNext]_vars

---------------------------------------------------------------------------
(* The extractPackageInfo call as a state machine: a title is drawn, the   *)
(* function returns                                                        *)

\* first segments of the enumerated package paths
Heads == {"github.com", "gopkg.in", "golang.org", "google.golang.org",
          "gitlab.com", "@dd", "rails"}

\* later segments of the enumerated package paths
Segments == {"x", "DataDog", "vektra", "v2", "mgo.v2"}

RECURSIVE JoinPath(_, _)
JoinPath(head, tail) ==
  IF tail = <<>> THEN head ELSE JoinPath(head \o "/" \o Head(tail), Tail(tail))

PackagePaths == {JoinPath(h, t) : h \in Heads, t \in Lists(Segments, MaxSegments)}

\* what a title puts before and after the package
Prefixes == {"Bump ", "Update ", "chore(deps): bump ", "^ (deps): Bump ",
             "^ (deps): Bump the ", "Build(deps): "}
Suffixes == {" from 1 to 2", " to 2", " group with 2 updates", ""}

SamplePackages == {"rails", "@dd/rum", "@dd", "gopkg.in/DataDog/dd.v1",
                   "github.com/vektra/mockery/v2"}

TitleInputs ==
  {"Bump " \o pkg \o " from 1 to 2" : pkg \in PackagePaths}
    \cup {pre \o pkg \o suf : pre \in Prefixes, pkg \in SamplePackages, suf \in Suffixes}
    \cup {"", "Update dependencies", "Merge branch main"}

ExtractInit ==
  /\ prTitle \in TitleInputs
  /\ extracted = [packageName |-> "", orgName |-> ""]
  /\ xpc = "input"
  /\ RunIdle
  /\ DenyIdle
  /\ CfgIdle
  /\ CiIdle
  /\ FlowIdle

Extract ==
  /\ xpc = "input"
  /\ extracted' = extractPackageInfo(prTitle)
  /\ xpc' = "done"
  /\ UNCHANGED prTitle
  /\ UNCHANGED <<runVars, denyVars, cfgVars, ciVars, flowVars>>

ExtractNext == Extract

SpecExtract == ExtractInit /\ [][ExtractNext]_vars

---------------------------------------------------------------------------
(* The approve flows that enable auto-merge:                               *)
(* "gh": runApprove of the gh rewrite (part_003:418-453), one PR at a time *)
(* "graphql": runDependencyUpdate of the auto-merge plan (part_004:388-406) *)
(* ApprovePullRequests on the whole list, then EnableAutoMerge on each PR  *)

\* the working set: n pull requests that passed the listing's filters
Working(n) ==
  [k \in 1..n |-> [PullRequestNumber |-> k, Title |-> "Update dependencies",
                   PackageName |-> ""]]

ApproveInit ==
  /\ mode = "approve"
  /\ flow \in {"gh", "graphql"}
  /\ \E n \in 1..MaxPRs :
       /\ reqs = Working(n)
       /\ IF flow = "gh"
          THEN mergeState \in [1..n -> MergeStates]
          ELSE mergeState = [k \in 1..n |-> "none"]
  /\ idx = 1
  /\ pc = IF flow = "gh" THEN "approve" ELSE "act"
  /\ calls = <<>>
  /\ err = ""
  /\ q = EmptyQuery
  /\ pulls = <<>> /\ prs = <<>> /\ ci = <<>>
  /\ args = <<"o/r">> /\ repos = <<>> /\ ri = 0
  /\ olderThan = 0 /\ dryRun = FALSE
  /\ reads = {} /\ edits = <<>> /\ olds = <<>>
  /\ DenyIdle
  /\ CfgIdle
  /\ CiIdle
  /\ ExtIdle

\* runApprove requesting a rebase after every approval
afterApprove_rebaseAlways(ok, ms) ==
  IF ~ok THEN "approve" ELSE "rebase"

\* runApprove going on with the PR whose approval failed
afterApprove_noContinue(ok, ms) ==
  IF ms = "BEHIND" THEN "rebase" ELSE "automerge"

\* what runApprove does after ApprovePR: `continue` with the next PR when it
\* failed, RebasePR when the PR is BEHIND, else AutoMergePR
afterApprove(ok, ms) ==
  IF ~ok THEN "approve" ELSE IF ms = "BEHIND" THEN "rebase" ELSE "automerge"

\* scm.ApprovePR in the loop of runApprove
ApprovePR ==
  /\ flow = "gh" /\ pc = "approve" /\ idx <= Len(reqs)
  /\ \E ok \in BOOLEAN :
       LET n == reqs[idx].PullRequestNumber
           next == afterApprove(ok, mergeState[n])
       IN  /\ calls' = Append(calls, [op |-> "approve", pr |-> n, ok |-> ok])
           /\ pc' = next
           /\ idx' = IF next = "approve" THEN idx + 1 ELSE idx
  /\ UNCHANGED <<mode, q, pulls, reqs, prs, ci, err,
                 args, repos, ri, olderThan, dryRun, reads, edits, mergeState, olds>>
  /\ UNCHANGED <<denyVars, cfgVars, ciVars, extVars, flowVars>>

\* scm.RebasePR: a failure is logged, the auto-merge follows either way
RebasePR ==
  /\ flow = "gh" /\ pc = "rebase"
  /\ \E ok \in BOOLEAN :
       calls' = Append(calls, [op |-> "rebase", pr |-> reqs[idx].PullRequestNumber, ok |-> ok])
  /\ pc' = "automerge"
  /\ UNCHANGED <<mode, q, pulls, idx, reqs, prs, ci, err,
                 args, repos, ri, olderThan, dryRun, reads, edits, mergeState, olds>>
  /\ UNCHANGED <<denyVars, cfgVars, ciVars, extVars, flowVars>>

\* scm.AutoMergePR, the last call of one iteration
AutoMergePR ==
  /\ flow = "gh" /\ pc = "automerge"
  /\ \E ok \in BOOLEAN :
       calls' = Append(calls, [op |-> "automerge", pr |-> reqs[idx].PullRequestNumber, ok |-> ok])
  /\ pc' = "approve"
  /\ idx' = idx + 1
  /\ UNCHANGED <<mode, q, pulls, reqs, prs, ci, err,
                 args, repos, ri, olderThan, dryRun, reads, edits, mergeState, olds>>
  /\ UNCHANGED <<denyVars, cfgVars, ciVars, extVars, flowVars>>

\* runApprove returns nil after the last PR
ApproveReturn ==
  /\ flow = "gh" /\ pc = "approve" /\ idx > Len(reqs)
  /\ pc' = "done"
  /\ UNCHANGED <<mode, q, pulls, idx, reqs, prs, calls, ci, err,
                 args, repos, ri, olderThan, dryRun, reads, edits, mergeState, olds>>
  /\ UNCHANGED <<denyVars, cfgVars, ciVars, extVars, flowVars>>

\* ApprovePullRequests has returned nil: the loop over EnableAutoMerge starts
AutoMergeStart ==
  /\ flow = "graphql" /\ pc = "act" /\ idx > Len(reqs)
  /\ pc' = "automerge"
  /\ idx' = 1
  /\ UNCHANGED <<mode, q, pulls, reqs, prs, calls, ci, err,
                 args, repos, ri, olderThan, dryRun, reads, edits, mergeState, olds>>
  /\ UNCHANGED <<denyVars, cfgVars, ciVars, extVars, flowVars>>

\* c.EnableAutoMerge on one update: a failure is logged, the loop goes on;
\* after the last update runDependencyUpdate returns nil
EnableAutoMerge ==
  /\ flow = "graphql" /\ pc = "automerge"
  /\ IF idx <= Len(reqs)
     THEN /\ \E ok \in BOOLEAN :
               calls' = Append(calls, [op |-> "automerge",
                                       pr |-> reqs[idx].PullRequestNumber, ok |-> ok])
          /\ idx' = idx + 1
          /\ UNCHANGED pc
     ELSE pc' = "done" /\ UNCHANGED <<calls, idx>>
  /\ UNCHANGED <<mode, q, pulls, reqs, prs, ci, err,
                 args, repos, ri, olderThan, dryRun, reads, edits, mergeState, olds>>
  /\ UNCHANGED <<denyVars, cfgVars, ciVars, extVars, flowVars>>

ApproveNext ==
  \/ ApprovePR
  \/ RebasePR
  \/ AutoMergePR
  \/ ApproveReturn
  \/ ActStep
  \/ AutoMergeStart
  \/ EnableAutoMerge

SpecApprove == ApproveInit /\ [][ApproveNext]_vars

---------------------------------------------------------------------------
(* SpecDedup: the deny lists as the configuration gives them, made free of *)
(* duplicates by the command (commands.go:229-231, 318-331) and then used  *)
(* by isDenied (github.go:121-189)                                         *)

\* entries that differ in letter case or surrounding white space, and a blank
DedupEntries == {"dd", " dd ", "DD", ""}

DedupNames == {"", "dd"}

DedupInit ==
  /\ packageName \in DedupNames
  /\ orgName \in DedupNames
  /\ deniedPackages \in Lists(DedupEntries, MaxDenied)
  /\ deniedOrgs \in Lists(DedupEntries, MaxDenied)
  /\ result = FALSE
  /\ dpc = "raw"
  /\ RunIdle /\ CfgIdle /\ CiIdle /\ ExtIdle /\ FlowIdle

\* deniedPackages = removeDuplicates(deniedPackages), and the same for orgs
RemoveDuplicates ==
  /\ dpc = "raw"
  /\ deniedPackages' = removeDuplicates(deniedPackages)
  /\ deniedOrgs' = removeDuplicates(deniedOrgs)
  /\ dpc' = "input"
  /\ UNCHANGED <<packageName, orgName, result>>
  /\ UNCHANGED <<runVars, cfgVars, ciVars, extVars, flowVars>>

DedupNext == RemoveDuplicates \/ Evaluate

SpecDedup == DedupInit /\ [][DedupNext]_vars

---------------------------------------------------------------------------
(* SpecReport: the report of one repository in runCheck, from the answer   *)
(* of PullRequests.List on; the deny lists hold wildcard, partial and      *)
(* exact entries (GetDependabotPRsWithDenyList, github.go:445-504)         *)

\* denied_packages and denied_orgs of the configuration file
ReportPackages ==
  {<<"*alpha*">>, <<"sdk", "*alpha*">>, <<"github.com/x/alpha-sdk">>,
   <<"github.com/aws/aws-sdk-go@v1">>}

ReportOrgs == {<<>>, <<"X">>, <<"AWS">>}

ReportConfigs ==
  {[EmptyConfig EXCEPT !.global = [denied_packages |-> ps, denied_orgs |-> os]] :
     ps \in ReportPackages, os \in ReportOrgs}

ReportPullLists ==
  UNION {[1..n -> [UserID : UserIDs, Title : ReportTitles]] : n \in 1..MaxPRs}

\* runCheck has built the query of "o/r" and PullRequests.List has answered
ReportInit ==
  /\ mode = "check" /\ args = <<"o/r">> /\ repos = <<"o/r">> /\ ri = 1
  /\ cfg \in ReportConfigs
  /\ q = buildQuery("check", "o/r", cfg)
  /\ \E l \in ReportPullLists :
       /\ pulls = [k \in 1..Len(l) |-> Pull(l, k)]
       /\ ci = [k \in 1..Len(l) |-> "none"]
       /\ mergeState = [k \in 1..Len(l) |-> "none"]
  /\ idx = 1 /\ pc = "filter" /\ err = ""
  /\ reqs = <<>> /\ prs = <<>> /\ calls = <<>> /\ edits = <<>> /\ olds = <<>>
  /\ reads = {"PullRequests.List o/r"}
  /\ olderThan = 0 /\ dryRun = FALSE
  /\ cmd = [name |-> "none", repo |-> ""]
  /\ resolved = EmptyQuery
  /\ cpc = "idle"
  /\ DenyIdle /\ CiIdle /\ ExtIdle /\ FlowIdle

ReportNext == CheckStep \/ FilterReturn \/ NextRepo

SpecReport == ReportInit /\ [][ReportNext]_vars

---------------------------------------------------------------------------
(* Properties of the listing and of the actions *)

\* the deny policy applied to a title, spelled out on the query's lists
TitleDenied(title) ==
  LET info == titleInfo[title]
  IN  isDenied(info.packageName, info.orgName, q.DeniedPackages, q.DeniedOrgs)

Ignored == {q.IgnoredPRs[i] : i \in 1..Len(q.IgnoredPRs)}

\* PR numbers GetDependencyUpdates has put in its result so far
Returned == {reqs[i].PullRequestNumber : i \in 1..Len(reqs)}

\* PR numbers a mutating request was issued for
ActedOn == {calls[i].pr : i \in 1..Len(calls)}

\* the command ran to its end without error and issued at least one request
RanWithAction == pc = "done" /\ err = "" /\ calls # <<>>

\* C1: no PR in the result of GetDependencyUpdates is denied by the policy
\* applied to its title, and no request is ever issued on a denied PR.
C1_DeniedNeverActionable ==
  /\ \A i \in 1..Len(reqs) : ~TitleDenied(reqs[i].Title)
  /\ \A n \in ActedOn : ~TitleDenied(pulls[n].Title)

C1_Witness ==
  /\ RanWithAction
  /\ \E k \in 1..Len(pulls) :
       /\ pulls[k].UserID = dependabotUserID
       /\ k \notin Ignored
       /\ extractPackageInfo(pulls[k].Title).orgName = "datadog"
       /\ TitleDenied(pulls[k].Title)

\* C2: a PR whose number is in q.IgnoredPRs is never in the result of
\* GetDependencyUpdates, in approve and in recreate mode; it is dropped
\* before any other filter looks at it (its CI status is never fetched) and
\* no request is issued on it.
C2_IgnoredNeverActionable ==
  \A n \in Ignored :
    /\ n \notin Returned
    /\ n \notin ActedOn
    /\ n \in DOMAIN ci => ci[n] = "none"

C2_Witness ==
  /\ RanWithAction
  /\ \E k \in Ignored :
       /\ k \in 1..Len(pulls)
       /\ pulls[k].UserID = dependabotUserID
       /\ ~TitleDenied(pulls[k].Title)

\* C3: only PRs authored by the Dependabot identity appear in the result of
\* GetDependencyUpdates and in the report of GetDependabotPRsWithDenyList,
\* and only on them is a request issued.
C3_OnlyDependabotPRs ==
  /\ \A n \in Returned : pulls[n].UserID = dependabotUserID
  /\ \A i \in 1..Len(prs) : pulls[prs[i].Number].UserID = dependabotUserID
  /\ \A n \in ActedOn : pulls[n].UserID = dependabotUserID

C3_Witness ==
  /\ RanWithAction
  /\ \E k \in 1..Len(pulls) :
       /\ pulls[k].UserID # dependabotUserID
       /\ k \notin Ignored
       /\ ~TitleDenied(pulls[k].Title)

\* C4: in approve mode (skipFailing) every PR of the result has CI state
\* "success"; a PR whose state is "pending" or "failure" is never approved.
C4_ApproveOnlySuccess ==
  mode = "approve" =>
    /\ \A n \in Returned : ci[n] = "success"
    /\ \A n \in ActedOn : ci[n] = "success"

C4_Witness ==
  /\ RanWithAction
  /\ mode = "approve"
  /\ \E k \in 1..Len(pulls) : ci[k] = "pending"
  /\ \E k \in 1..Len(pulls) : ci[k] = "success"

---------------------------------------------------------------------------
(* Vocabulary of the properties of isDenied *)

SameIgnoringCase(s, t) == ToLower(s) = ToLower(t)

UpperMap ==
  [c \in {CharAt(LowerChars, i) : i \in 1..26} |->
     CharAt(UpperChars, CHOOSE i \in 1..26 : CharAt(LowerChars, i) = c)]

UpperChar(c) == IF c \in DOMAIN UpperMap THEN UpperMap[c] ELSE c

RECURSIVE ToUpper(_)
ToUpper(s) ==
  IF s = "" THEN ""
  ELSE UpperChar(CharAt(s, 1)) \o ToUpper(SubSeq(s, 2, Len(s)))

\* s with the letter at position i changed to its other case
FlipCase(s, i) ==
  SubSeq(s, 1, i - 1)
    \o (IF LowerChar(CharAt(s, i)) = CharAt(s, i)
        THEN UpperChar(CharAt(s, i)) ELSE LowerChar(CharAt(s, i)))
    \o SubSeq(s, i + 1, Len(s))

\* strings that differ from s only in letter case
CaseVariants(s) == {ToLower(s), ToUpper(s)} \cup {FlipCase(s, i) : i \in 1..Len(s)}

\* name@version with a non-empty name that holds no '@': the name; else p
VersionSuffixRemoved(p) ==
  IF \E k \in 2..Len(p) : CharAt(p, k) = "@" /\ ~Contains(SubSeq(p, 1, k - 1), "@")
  THEN SubSeq(p, 1, (CHOOSE k \in 2..Len(p) :
                       CharAt(p, k) = "@" /\ ~Contains(SubSeq(p, 1, k - 1), "@")) - 1)
  ELSE p

\* the call has returned for a single deny entry and no denied organization
SingleEntryDone == dpc = "done" /\ Len(deniedPackages) = 1 /\ deniedOrgs = <<>>

TheEntry == deniedPackages[1]

\* "*x*" with non-empty x
StarBothEnds(d) == Len(d) >= 3 /\ CharAt(d, 1) = "*" /\ CharAt(d, Len(d)) = "*"
\* "*x" with non-empty x that holds no '*'
StarLeadingOnly(d) ==
  Len(d) >= 2 /\ CharAt(d, 1) = "*" /\ ~Contains(SubSeq(d, 2, Len(d)), "*")
\* "x*" with non-empty x that holds no '*'
StarTrailingOnly(d) ==
  Len(d) >= 2 /\ CharAt(d, Len(d)) = "*" /\ ~Contains(SubSeq(d, 1, Len(d) - 1), "*")

Inner(d) == SubSeq(d, 2, Len(d) - 1)

---------------------------------------------------------------------------
(* Properties of isDenied *)

\* C5: a plain deny entry (no '*', no '@') denies a package name without '@'
\* only if the two are equal ignoring letter case; a denied name that is a
\* prefix or substring of the package name does not deny it.
C5_PlainEntryDeniesOnlyEqualName ==
  (/\ SingleEntryDone
   /\ ~Contains(packageName, "@")
   /\ ~Contains(TheEntry, "*") /\ ~Contains(TheEntry, "@")
   /\ result)
  => SameIgnoringCase(packageName, TheEntry)

C5_Witness ==
  /\ dpc = "done"
  /\ deniedPackages = <<"aws-sdk-go">> /\ deniedOrgs = <<>>
  /\ packageName = "aws-sdk-go-v2"
  /\ result = FALSE

\* C6 as stated: with the single entry "*x*", isDenied is true exactly when
\* lower-cased x is a substring of the lower-cased name, for every x.
C6_AnyInfixWildcard ==
  (/\ SingleEntryDone /\ orgName = ""
   /\ StarBothEnds(TheEntry) /\ ~Contains(Inner(TheEntry), "*"))
  => (result <=> Contains(ToLower(packageName), ToLower(Inner(TheEntry))))

\* C6 amended: with the single entry "*x*", isDenied is true exactly when
\* lower-cased x is one of alpha, beta, rc and is a substring of the
\* lower-cased name; every other "*x*" entry denies nothing.
C6_KnownInfixWildcard ==
  (SingleEntryDone /\ orgName = "" /\ StarBothEnds(TheEntry))
  => (result <=> /\ ToLower(Inner(TheEntry)) \in {"alpha", "beta", "rc"}
                 /\ Contains(ToLower(packageName), ToLower(Inner(TheEntry))))

C6_Witness ==
  /\ dpc = "done"
  /\ deniedPackages = <<"*Rc*">> /\ deniedOrgs = <<>> /\ orgName = ""
  /\ packageName = "x/RC.2"
  /\ result = TRUE

\* C7: a deny entry with '@' and no '*' denies exactly the names whose
\* lower-cased form contains the lower-cased entry.
C7_VersionedEntryIsSubstring ==
  (/\ SingleEntryDone /\ orgName = ""
   /\ Contains(TheEntry, "@") /\ ~Contains(TheEntry, "*"))
  => (result <=> Contains(ToLower(packageName), ToLower(TheEntry)))

C7_Witness ==
  /\ dpc = "done"
  /\ deniedPackages = <<"pkg@v1">> /\ deniedOrgs = <<>> /\ orgName = ""
  /\ packageName = "x/pkg@v1.2"
  /\ result = TRUE

\* C8: a deny entry without '*' and '@' denies exactly the names equal to it
\* ignoring case, as they are or with their '@version' suffix removed.
C8_PlainEntryIsNameOrBase ==
  (/\ SingleEntryDone /\ orgName = ""
   /\ ~Contains(TheEntry, "*") /\ ~Contains(TheEntry, "@"))
  => (result <=> \/ SameIgnoringCase(packageName, TheEntry)
                 \/ SameIgnoringCase(VersionSuffixRemoved(packageName), TheEntry))

C8_Witness ==
  /\ dpc = "done"
  /\ deniedPackages = <<"pkg">> /\ deniedOrgs = <<>> /\ orgName = ""
  /\ packageName = "PKG@V1.2"
  /\ result = TRUE

\* C9 as stated: "*x" denies exactly the names that end with x, and "x*"
\* exactly the names that start with x (names lower-cased).
C9_AnyOneEndedWildcard ==
  /\ (SingleEntryDone /\ orgName = "" /\ StarLeadingOnly(TheEntry))
     => (result <=> HasSuffix(ToLower(packageName), SubSeq(TheEntry, 2, Len(TheEntry))))
  /\ (SingleEntryDone /\ orgName = "" /\ StarTrailingOnly(TheEntry))
     => (result <=> HasPrefix(ToLower(packageName), SubSeq(TheEntry, 1, Len(TheEntry) - 1)))

\* C9 amended: "*x" denies a name exactly when x is "/v0" ignoring case and
\* the lower-cased name ends with "/v0"; an entry "x*" denies no name.
C9_KnownOneEndedWildcard ==
  /\ (SingleEntryDone /\ orgName = "" /\ StarLeadingOnly(TheEntry))
     => (result <=> /\ ToLower(SubSeq(TheEntry, 2, Len(TheEntry))) = "/v0"
                    /\ HasSuffix(ToLower(packageName), "/v0"))
  /\ (SingleEntryDone /\ orgName = "" /\ StarTrailingOnly(TheEntry))
     => result = FALSE

C9_Witness ==
  /\ dpc = "done"
  /\ deniedPackages = <<"*/V0">> /\ deniedOrgs = <<>> /\ orgName = ""
  /\ packageName = "x/api/v0"
  /\ result = TRUE

\* C10: changing only the letter case of the package name, of the
\* organization, of a deniedPackages entry or of a deniedOrgs entry never
\* changes what isDenied returns.
C10_CaseInsensitive ==
  dpc = "done" =>
    /\ \A p2 \in CaseVariants(packageName) :
         isDenied(p2, orgName, deniedPackages, deniedOrgs) = result
    /\ \A o2 \in CaseVariants(orgName) :
         isDenied(packageName, o2, deniedPackages, deniedOrgs) = result
    /\ \A i \in 1..Len(deniedPackages) : \A d2 \in CaseVariants(deniedPackages[i]) :
         isDenied(packageName, orgName, [deniedPackages EXCEPT ![i] = d2], deniedOrgs) = result
    /\ \A j \in 1..Len(deniedOrgs) : \A o2 \in CaseVariants(deniedOrgs[j]) :
         isDenied(packageName, orgName, deniedPackages, [deniedOrgs EXCEPT ![j] = o2]) = result

C10_Witness ==
  /\ dpc = "done"
  /\ packageName = "PKG@v1.2" /\ orgName = "dd"
  /\ deniedPackages = <<"Pkg", "*rc*">> /\ deniedOrgs = <<"Dd">>
  /\ result = TRUE

\* C11: whenever orgName equals some deniedOrgs entry ignoring case, isDenied
\* returns true whatever packageName and deniedPackages are; and with an
\* empty deniedPackages list isDenied is true exactly when orgName equals
\* some deniedOrgs entry ignoring case (no substring, no wildcard).
C11_OrgDenialIndependent ==
  dpc = "done" =>
    LET orgListed == \E j \in 1..Len(deniedOrgs) : SameIgnoringCase(orgName, deniedOrgs[j])
    IN  /\ orgListed => result
        /\ deniedPackages = <<>> => (result <=> orgListed)

C11_Witness ==
  /\ dpc = "done"
  /\ packageName = "pkg-v2" /\ orgName = "EL"
  /\ deniedPackages = <<"pkg", "*rc*">> /\ deniedOrgs = <<"Dd", "el">>
  /\ result = TRUE

---------------------------------------------------------------------------
(* Properties of the resolved deny lists *)

Elems(l) == {l[i] : i \in 1..Len(l)}

NonBlank(S) == {e \in S : TrimSpace(e) # ""}

\* same entry up to letter case and surrounding white space
SameEntry(a, b) == ToLower(TrimSpace(a)) = ToLower(TrimSpace(b))

\* a bot pull request whose title names no package
UnparsedPull == [Number |-> 1, UserID |-> dependabotUserID, Title |-> "Update dependencies"]

C19_AllSourcesMerged ==
  cpc = "done" =>
    LET packages == cfg.global.denied_packages
                      \o repoSetting(cfg, cmd.repo, "denied_packages")
                      \o cfg.flags.deny_packages
        orgs == cfg.global.denied_orgs
                  \o repoSetting(cfg, cmd.repo, "denied_orgs")
                  \o cfg.flags.deny_orgs
    IN  /\ \A e \in NonBlank(Elems(packages)) :
             \E r \in Elems(resolved.DeniedPackages) : SameEntry(r, e)
        /\ \A e \in NonBlank(Elems(orgs)) :
             \E r \in Elems(resolved.DeniedOrgs) : SameEntry(r, e)
        /\ Elems(resolved.DeniedPackages) \subseteq Elems(packages)
        /\ Elems(resolved.DeniedOrgs) \subseteq Elems(orgs)

---------------------------------------------------------------------------
(* Properties of ciStatus *)

Completed(c) == c.Status = "COMPLETED"

\* C18 as stated: "pending" when there is no entry or some entry is not
\* completed, wherever it stands in the list; otherwise "failure" when some
\* entry completed with an outcome other than success, skipped or neutral;
\* otherwise "success".
C18_CiStateByPrecedence ==
  kpc = "done" =>
    ciState = (IF checks = <<>> \/ \E c \in Elems(checks) : ~Completed(c)
               THEN "pending"
               ELSE IF \E c \in Elems(checks) :
                         c.Conclusion \notin {"SUCCESS", "SKIPPED", "NEUTRAL"}
               THEN "failure"
               ELSE "success")

---------------------------------------------------------------------------
(* Properties of the actions of approve and recreate *)

\* the requests issued on pull request n with operation op
CallsOn(n, op) == {i \in 1..Len(calls) : calls[i].pr = n /\ calls[i].op = op}

\* pull requests the review loop has gone past, with the merge state each had
Reviewed == {n \in DOMAIN mergeState : mergeState[n] # "none"}

\* bot-authored, not ignored and not denied
Eligible ==
  {k \in 1..Len(pulls) :
     /\ pulls[k].UserID = dependabotUserID
     /\ k \notin Ignored
     /\ ~TitleDenied(pulls[k].Title)}

\* the listing answered and the command has returned or panicked in its loop
ListedAndEnded == pc = "done" /\ err \in {"", "panic"} /\ reads # {} /\ reads # {"gh auth token"}

\* C13: in approve mode a PR whose merge state is DIRTY gets a recreate
\* request and gets no approve request in the same pass.
C13_DirtyRecreatedNotApproved ==
  mode = "approve" =>
    \A n \in Reviewed :
      mergeState[n] = "DIRTY" =>
        CallsOn(n, "recreate") # {} /\ CallsOn(n, "approve") = {}

\* C14: in approve mode, once the pass has ended without error, a PR whose
\* merge state is BEHIND has a rebase request next to its approval, and a
\* rebase request is only ever issued on a PR that is BEHIND.
C14_BehindRebased ==
  mode = "approve" =>
    /\ (pc = "done" /\ err = "") =>
          \A n \in Reviewed :
            mergeState[n] = "BEHIND" =>
              CallsOn(n, "approve") # {} /\ CallsOn(n, "rebase") # {}
    /\ \A i \in 1..Len(calls) :
          calls[i].op = "rebase" => mergeState[calls[i].pr] = "BEHIND"

\* C15: in recreate mode, when the command has ended after a successful
\* listing, every PR that is bot-authored, not ignored and not denied has
\* exactly one recreate request, and no request other than recreate exists.
C15_RecreateEveryEligible ==
  (mode = "recreate" /\ ListedAndEnded) =>
    /\ \A k \in Eligible : Cardinality(CallsOn(k, "recreate")) = 1
    /\ \A i \in 1..Len(calls) : calls[i].op = "recreate"

\* C16: in approve and recreate mode a failed request on one PR does not end
\* the run: the run never ends in a panic or an error because of it, and
\* every PR of the working set has had its request attempted at the end.
C16_FailureDoesNotAbort ==
  (mode \in {"approve", "recreate"} /\ pc = "done" /\ calls # <<>>) =>
    /\ err = ""
    /\ \A i \in 1..Len(reqs) :
          \E j \in 1..Len(calls) : calls[j].pr = reqs[i].PullRequestNumber

---------------------------------------------------------------------------
(* Properties of check and of the handling of wrong input *)

\* C17: a check run issues no mutating call: no review (approve, rebase,
\* recreate, merge), no comment and no close, whatever repositories it is
\* given and whatever pull requests they hold.
C17_CheckReadOnly ==
  mode = "check" => calls = <<>> /\ edits = <<>>

\* check has reported both pull requests of its second well-formed repository
C17_Witness ==
  /\ mode = "check"
  /\ pc = "filter" /\ idx > Len(pulls)
  /\ currentRepo = "o/x"
  /\ "PullRequests.List o/r" \in reads
  /\ Len(prs) = 2
  /\ \E i \in 1..2 : prs[i].Skipped

\* owner/repo: exactly one '/'
OwnerRepo(arg) == Cardinality(Occurrences(arg, "/")) = 1

\* the run was given a malformed identifier or, in close, no --older-than
InputError ==
  \/ \E i \in 1..Len(args) : ~OwnerRepo(args[i])
  \/ mode = "close" /\ olderThan = 0

NoCollaboratorCall == reads = {} /\ calls = <<>> /\ edits = <<>>

\* C20 as stated: once the command has ended, wrong input has made it fail
\* with an error before any collaborator call.
C20_InputErrorsFailFirst ==
  (pc = "done" /\ InputError) => err # "" /\ NoCollaboratorCall

\* C20, amended: approve, recreate and close fail on a malformed identifier
\* before any collaborator call; close fails on a missing --older-than after
\* the token lookup and before any listing or action; check never calls
\* GitHub for a malformed identifier, does not fail on it and goes on to the
\* identifiers after it.
C20_InputErrorsByCommand ==
  /\ (mode # "check" /\ ~OwnerRepo(args[1]) /\ pc # "start") =>
        pc = "done" /\ err = "invalid repository format" /\ NoCollaboratorCall
  /\ (mode = "close" /\ OwnerRepo(args[1]) /\ olderThan = 0 /\ pc \notin {"start", "token"}) =>
        /\ pc = "done"
        /\ err \in {"GitHub token not found", "--older-than flag is required"}
        /\ reads \subseteq {"gh auth token"}
        /\ calls = <<>> /\ edits = <<>>
  /\ mode = "check" =>
        /\ \A i \in 1..Len(repos) :
              ~OwnerRepo(repos[i]) => ("PullRequests.List " \o repos[i]) \notin reads
        /\ (pc = "done" /\ err = "") =>
              \A i \in 1..Len(repos) :
                OwnerRepo(repos[i]) => ("PullRequests.List " \o repos[i]) \in reads

\* close without --older-than has looked the token up with gh, then failed
C20_Witness ==
  /\ mode = "close" /\ olderThan = 0
  /\ pc = "done" /\ err = "--older-than flag is required"
  /\ reads = {"gh auth token"}

---------------------------------------------------------------------------
(* Properties of extractPackageInfo *)

\* the call has returned
Extracted == xpc = "done"

Pkg == extracted.packageName
Org == extracted.orgName
PkgParts == Split(Pkg, "/")

Scoped(p) == HasPrefix(p, "@") /\ Contains(p, "/")
NoOrgDomain(p) == HasPrefix(p, "golang.org/x/") \/ HasPrefix(p, "google.golang.org/")
GithubOwnerRepo(p) == HasPrefix(p, "github.com/") /\ Len(Split(p, "/")) >= 3

\* C21: the organization of a scoped name is its scope without '@'; of
\* github.com/owner/repo[/...] the owner as written; of gopkg.in/Owner/repo
\* the owner lower-cased; and it is empty for gopkg.in/repo, for names under
\* golang.org/x/ or google.golang.org/ and for names without '/'.
C21_OrgByPackageForm ==
  Extracted =>
    /\ Scoped(Pkg) => Org = SubSeq(PkgParts[1], 2, Len(PkgParts[1]))
    /\ GithubOwnerRepo(Pkg) => Org = PkgParts[2]
    /\ (HasPrefix(Pkg, "gopkg.in/") /\ Len(PkgParts) > 2) => Org = ToLower(PkgParts[2])
    /\ (HasPrefix(Pkg, "gopkg.in/") /\ Len(PkgParts) = 2) => Org = ""
    /\ NoOrgDomain(Pkg) => Org = ""
    /\ ~Contains(Pkg, "/") => Org = ""

\* a gopkg.in path with a capitalised owner has been parsed
C21_Witness ==
  /\ Extracted
  /\ Pkg = "gopkg.in/DataDog/x"
  /\ Org = "datadog"

\* tokens of the title after the first that hold '/' or '@'
FallbackTokens ==
  LET f == Fields(prTitle)
  IN  {i \in 2..Len(f) : Contains(f[i], "/") \/ Contains(f[i], "@")}

\* C22: the organization is non-empty only if the package name is non-empty
\* and holds '/'; the call always returns, and returns two empty strings
\* when no pattern matches and no token after the first holds '/' or '@'.
C22_OrgNeedsSeparator ==
  Extracted =>
    /\ Org # "" => (Pkg # "" /\ Contains(Pkg, "/"))
    /\ (patternPackage(prTitle) = "" /\ FallbackTokens = {}) => (Pkg = "" /\ Org = "")

\* a title no pattern matches and that holds no package-like token
C22_Witness ==
  /\ Extracted
  /\ prTitle = "Update dependencies"
  /\ Pkg = "" /\ Org = ""

Digits == {"0", "1", "2", "3", "4", "5", "6", "7", "8", "9"}

\* 'v' followed by a digit
VersionLike(seg) == Len(seg) >= 2 /\ CharAt(seg, 1) = "v" /\ CharAt(seg, 2) \in Digits

\* segments after the first that hold no '.' and are no version suffix
OrgCandidates ==
  {i \in 2..Len(PkgParts) : ~Contains(PkgParts[i], ".") /\ ~VersionLike(PkgParts[i])}

\* C25: for a path with '/' that is not scoped, not under golang.org/x/,
\* google.golang.org/ or gopkg.in/, and no github.com path of three or more
\* segments, the organization is the first segment after the first that
\* holds no '.' and does not start with 'v' followed by digits; a segment
\* that only begins with the letter 'v' is not skipped.
C25_FallbackOrgSkipsVersions ==
  (/\ Extracted
   /\ Contains(Pkg, "/")
   /\ ~Scoped(Pkg) /\ ~NoOrgDomain(Pkg) /\ ~HasPrefix(Pkg, "gopkg.in/")
   /\ ~GithubOwnerRepo(Pkg)) =>
    Org = IF OrgCandidates = {} THEN "" ELSE PkgParts[Min(OrgCandidates)]

---------------------------------------------------------------------------
(* Properties of the approve flows with auto-merge *)

\* pairs of positions i < j of the requests issued so far
Earlier == {<<i, j>> \in (1..Len(calls)) \X (1..Len(calls)) : i < j}

\* the place of a request in the order rebase, approval, auto-merge
RebaseFirst(op) == IF op = "rebase" THEN 1 ELSE IF op = "approve" THEN 2 ELSE 3

\* the place of a request in the order approval, rebase, auto-merge
ApproveFirst(op) == IF op = "approve" THEN 1 ELSE IF op = "rebase" THEN 2 ELSE 3

---------------------------------------------------------------------------
(* The check report *)

\* the wording of the two kinds of SkipReason
OrgReason(org) == "org '" \o org \o "' is denied"
PackageReason(denied) == "package '" \o denied \o "' is denied"

\* the reason names a rule of the query that matches the title's package or
\* organization by itself
NamesMatchedRule(reason, info) ==
  \/ /\ reason = OrgReason(info.orgName)
     /\ \E j \in 1..Len(q.DeniedOrgs) : SameIgnoringCase(q.DeniedOrgs[j], info.orgName)
  \/ \E i \in 1..Len(q.DeniedPackages) :
       /\ reason = PackageReason(q.DeniedPackages[i])
       /\ isDenied(info.packageName, "", <<q.DeniedPackages[i]>>, <<>>)

\* the pull requests the loop of the listing has gone through
Classified == IF pc = "filter" THEN 1..(idx - 1) ELSE {}

\* C24: in the check report every denied bot PR is still listed, with
\* Skipped = true and a non-empty SkipReason naming a rule that matched: a
\* deniedOrgs entry equal to the PR's organization ignoring case, or a
\* deniedPackages entry that by itself makes isDenied true for the package.
C24_SkipReasonNamesMatchedRule ==
  mode = "check" =>
    \A k \in Classified :
      isDependabot(pulls[k]) /\ TitleDenied(pulls[k].Title) =>
        \E i \in 1..Len(prs) :
          /\ prs[i].Number = k
          /\ prs[i].Skipped
          /\ prs[i].SkipReason # ""
          /\ NamesMatchedRule(prs[i].SkipReason, titleInfo[pulls[k].Title])

\* a denied bot PR is listed as skipped and its reason names a matching rule
C24_Witness ==
  /\ mode = "check" /\ Classified # {}
  /\ \E i \in 1..Len(prs) :
       /\ prs[i].Skipped
       /\ NamesMatchedRule(prs[i].SkipReason, titleInfo[prs[i].Title])

---------------------------------------------------------------------------
(* Failures of the status lookup *)

\* the pull requests whose GetCombinedStatus call failed
StatusFailed == {k \in DOMAIN ci : ci[k] = "error"}

\* C26: while the PRs of a repository are classified, a failed CI status
\* lookup of one PR affects only that PR: the listing does not fail because
\* of it, and once the loop is left every other PR that needed a status
\* lookup has had it.
C26_StatusFailureAffectsOnlyThatPR ==
  StatusFailed # {} =>
    /\ err # "failed to get dependency updates"
    /\ (mode = "approve" /\ pc # "filter") =>
          \A j \in Eligible \ StatusFailed : ci[j] # "none"

---------------------------------------------------------------------------
(* Duplicate removal and the policy *)

\* the positions of l whose entry is not blank and has no earlier entry that
\* is the same up to letter case and surrounding white space
FirstOccurrences(l) ==
  {i \in 1..Len(l) :
     /\ TrimSpace(l[i]) # ""
     /\ \A j \in 1..(i - 1) : ~SameEntry(l[j], l[i])}

\* r lists exactly the entries of l at the positions of S, in their order
ListsPositions(r, l, S) ==
  /\ Len(r) = Cardinality(S)
  /\ \A n \in 1..Len(r) :
       \E i \in S : r[n] = l[i] /\ Cardinality({j \in S : j < i}) = n - 1

\* C28: duplicate removal never changes the policy outcome: isDenied gives
\* the same answer on removeDuplicates(L) as on L, for L as the package list
\* and for L as the organization list; removeDuplicates keeps the first
\* occurrence of each entry in the original order and is idempotent.
C28_DedupKeepsOutcome ==
  dpc = "raw" =>
    LET dedupPackages == removeDuplicates(deniedPackages)
        dedupOrgs == removeDuplicates(deniedOrgs)
        raw == isDenied(packageName, orgName, deniedPackages, deniedOrgs)
    IN  /\ isDenied(packageName, orgName, dedupPackages, deniedOrgs) = raw
        /\ isDenied(packageName, orgName, deniedPackages, dedupOrgs) = raw
        /\ ListsPositions(dedupPackages, deniedPackages, FirstOccurrences(deniedPackages))
        /\ ListsPositions(dedupOrgs, deniedOrgs, FirstOccurrences(deniedOrgs))
        /\ removeDuplicates(dedupPackages) = dedupPackages
        /\ removeDuplicates(dedupOrgs) = dedupOrgs

---------------------------------------------------------------------------
(* Properties of close *)

\* the comments among the first i calls of ClosePullRequests
CommentsUpTo(i) == {j \in 1..i : edits[j].op = "comment"}

\* C29: ClosePullRequests takes the PRs in list order and comments on each
\* one before closing it; a PR is closed only after its comment succeeded;
\* the first failed call ends the function with an error, so no later PR is
\* commented or closed, while the PRs before it stay closed.
C29_CommentThenCloseInOrder ==
  /\ \A i \in 1..Len(edits) :
       /\ edits[i].op \in {"comment", "close"}
       /\ edits[i].op = "close" =>
            /\ i > 1
            /\ edits[i - 1] = [op |-> "comment", pr |-> edits[i].pr, ok |-> TRUE]
       /\ edits[i].op = "comment" =>
            /\ Cardinality(CommentsUpTo(i)) <= Len(olds)
            /\ edits[i].pr = olds[Cardinality(CommentsUpTo(i))]
            /\ i > 1 => edits[i - 1] = [op |-> "close",
                                        pr |-> olds[Cardinality(CommentsUpTo(i)) - 1],
                                        ok |-> TRUE]
            /\ edits[i].ok => (i < Len(edits) /\ edits[i + 1].op = "close")
       /\ ~edits[i].ok =>
            /\ i = Len(edits)
            /\ pc = "done" /\ err = "failed to close PRs"
  /\ (mode = "close" /\ pc = "done" /\ err = "" /\ edits # <<>>) =>
       Len(edits) = 2 * Len(olds)

\* the first PR was commented and closed, the comment on the second failed
C29_Witness ==
  /\ mode = "close" /\ pc = "done" /\ err = "failed to close PRs"
  /\ Len(olds) = 2
  /\ edits = <<[op |-> "comment", pr |-> olds[1], ok |-> TRUE],
               [op |-> "close", pr |-> olds[1], ok |-> TRUE],
               [op |-> "comment", pr |-> olds[2], ok |-> FALSE]>>

---------------------------------------------------------------------------
(* The loop of check over its repositories *)

\* the repositories PullRequests.List has been called for
Listed == {repos[i] : i \in {j \in 1..Len(repos) : ("PullRequests.List " \o repos[j]) \in reads}}

\* one step of the loop: the index stays or moves to the next repository; a
\* listing is started only from the head of the loop, for a well-formed
\* repository at the current index, and is the only step that calls
\* PullRequests.List; it is left for the report or, on an error, for the next
\* repository; the run ends only after the last repository, without error
VisitStep ==
  /\ repos' = repos
  /\ ri' \in {ri, ri + 1}
  /\ ri' = ri + 1 => pc' = "repo"
  /\ pc' = "list" => (pc = "repo" /\ ri' = ri /\ OwnerRepo(repos[ri]))
  /\ pc = "list" => \/ pc' = "filter" /\ ri' = ri
                    \/ pc' = "repo" /\ ri' = ri + 1 /\ err' = ""
  /\ Listed' # Listed => (pc = "list" /\ Listed' = Listed \cup {repos[ri]})
  /\ pc' = "done" => (ri' = Len(repos) + 1 /\ err' = "")

\* runCheck has returned after going through its repositories
CheckEnded == mode = "check" /\ pc = "done" /\ repos # <<>>

\* C30: in check mode every repository of the list is visited exactly once,
\* one at a time; a malformed identifier or a failed listing of one
\* repository does not keep the remaining ones from being checked, and
\* runCheck then terminates returning no error.
C30_EveryRepositoryOnce ==
  /\ [][(mode = "check" /\ repos # <<>>) => VisitStep]_vars
  /\ [](CheckEnded =>
          /\ err = ""
          /\ ri = Len(repos) + 1
          /\ Listed = {repos[i] : i \in {j \in 1..Len(repos) : OwnerRepo(repos[j])}})
  /\ (mode = "check" /\ pc = "repo") ~> CheckEnded

\* check has gone past two malformed identifiers and listed the valid one
C30_Witness ==
  /\ CheckEnded /\ err = ""
  /\ repos = <<"o", "o/r", "o/r/x">>
  /\ ri = 4
  /\ Listed = {"o/r"}

====
